---- MODULE Spec2Model ----
(***************************************************************************)
(* A model of prosemirror-utils (danice/prosemirror-utils, TypeScript):    *)
(*   src/src/node.ts        descendant search (flatten, findChildren, ...) *)
(*   src/src/selection.ts   ancestor search (findParentNodeClosestToPos)   *)
(*   src/unnamed/part_000   transaction mutators (replaceNodeAtPos, ...)   *)
(*                                                                         *)
(* A document is the token sequence ProseMirror's positions index: every   *)
(* non-text node contributes an opening and a closing token, every         *)
(* character of a text node one token.  A node is the token sequence of    *)
(* its subtree (its own opening and closing token included), so a node's   *)
(* nodeSize is the length of that sequence and position p of a document    *)
(* lies between tokens p and p+1 of its content.                           *)
(*                                                                         *)
(* JavaScript values that the code only tests for truthiness or strict     *)
(* equality are strings: "true", "false", "undefined", "null".             *)
(***************************************************************************)
EXTENDS Integers, Sequences, FiniteSets, TLC

\* ------------------------------------------------------------------ bounds

\* Largest content size (in tokens) of a document the session starts from.
MaxDocSize == 8

\* Largest width (to - from) of a range selection the session starts from.
MaxRange == 1

\* ------------------------------------------------------------------ tokens

T == [k |-> "text", type |-> "text", colspan |-> "none"]

Open(type, colspan) == [k |-> "open", type |-> type, colspan |-> colspan]

Close(type) == [k |-> "close", type |-> type, colspan |-> "none"]

\* The node types of the schema the documents are built from.
NodeTypes == {"doc", "paragraph", "blockquote", "table", "row", "cell", "text"}

\* The attribute values a node of the given type may carry (cells: colspan).
AttrsOf(type) == IF type = "cell" THEN {"1", "2"} ELSE {"none"}

\* An absent (undefined) node argument: no node has an empty token sequence.
UndefinedNode == << >>

\* ------------------------------------------------------------ node accessors

isText(node) == node[1].k = "text"

TypeOf(node) == node[1].type

nodeSize(node) == Len(node)

\* node.content: the tokens between the node's opening and closing token.
nodeContent(node) == IF isText(node) THEN << >> ELSE SubSeq(node, 2, Len(node) - 1)

\* node.attrs, a JavaScript object: field name -> value.
nodeAttrs(node) ==
  IF node[1].colspan = "none"
    THEN [f \in {} |-> "undefined"]
    ELSE [colspan |-> node[1].colspan]

\* The properties of a node object a predicate of the model may read.  A
\* ProseMirror node has no property named colspan: that lives in node.attrs.
NodeObject(node) ==
  [type |-> TypeOf(node), isText |-> IF isText(node) THEN "true" ELSE "false"]

\* obj[field] in JavaScript: undefined when the object has no such property.
Prop(obj, field) == IF field \in DOMAIN obj THEN obj[field] ELSE "undefined"

\* Index of the closing token matching the opening token before position i,
\* with `open` opening tokens still unclosed.
RECURSIVE MatchClose(_, _, _)
MatchClose(s, i, open) ==
  IF s[i].k = "open" THEN MatchClose(s, i + 1, open + 1)
  ELSE IF s[i].k = "close"
    THEN (IF open = 1 THEN i ELSE MatchClose(s, i + 1, open - 1))
  ELSE MatchClose(s, i + 1, open)

\* Index of the last character of the text run that starts at i.
RECURSIVE TextEnd(_, _)
TextEnd(s, i) ==
  IF i < Len(s) /\ s[i + 1].k = "text" THEN TextEnd(s, i + 1) ELSE i

\* Index of the last token of the child node that starts at token i.
ChildEnd(s, i) == IF s[i].k = "text" THEN TextEnd(s, i) ELSE MatchClose(s, i, 0)

\* The children of a fragment, each with its offset in the fragment.
RECURSIVE ChildrenFrom(_, _)
ChildrenFrom(s, i) ==
  IF i > Len(s) THEN << >>
  ELSE LET e == ChildEnd(s, i)
       IN  <<[node |-> SubSeq(s, i, e), offset |-> i - 1]>> \o ChildrenFrom(s, e + 1)

Children(node) == ChildrenFrom(nodeContent(node), 1)

childCount(node) == Len(Children(node))

\* ------------------------------------------------------------------ schema
\* The content expressions of the schema, each as the automaton ProseMirror
\* compiles it to (ContentMatch):
\*   doc         (paragraph | blockquote | table)+
\*   blockquote  paragraph (paragraph | blockquote)*
\*   paragraph   text*
\*   table       row+
\*   row         cell+
\*   cell        text*

ContentStart == "start"

\* ContentMatch.matchType: the state after a child of type ctype, or "dead".
matchType(ptype, st, ctype) ==
  CASE st = "dead" -> "dead"
    [] ptype = "doc" /\ ctype \in {"paragraph", "blockquote", "table"} -> "more"
    [] ptype = "blockquote" /\ st = "start" /\ ctype = "paragraph" -> "more"
    [] ptype = "blockquote" /\ st = "more" /\ ctype \in {"paragraph", "blockquote"} -> "more"
    [] ptype \in {"paragraph", "cell"} /\ ctype = "text" -> st
    [] ptype = "table" /\ ctype = "row" -> "more"
    [] ptype = "row" /\ ctype = "cell" -> "more"
    [] OTHER -> "dead"

\* ContentMatch.validEnd
validEnd(ptype, st) ==
  \/ st = "more"
  \/ st = "start" /\ ptype \in {"paragraph", "cell"}

\* ContentMatch.matchFragment(frag, from, to): children from..to-1 (0-based).
RECURSIVE matchFragment(_, _, _, _, _)
matchFragment(ptype, st, kids, from, to) ==
  IF st = "dead" \/ from >= to THEN st
  ELSE matchFragment(ptype, matchType(ptype, st, TypeOf(kids[from + 1].node)),
                     kids, from + 1, to)

\* Whether node.canReplaceWith(from, to, type) throws: contentMatchAt(from)
\* reads child(i) for i < from (RangeError past the last child) and throws on
\* content the schema does not accept.
canReplaceWithThrows(node, from) ==
  \/ from > childCount(node)
  \/ matchFragment(TypeOf(node), ContentStart, Children(node), 0, from) = "dead"

\* node.canReplaceWith(from, to, type), where it does not throw.
canReplaceWith(node, from, to, type) ==
  LET kids  == Children(node)
      at    == matchFragment(TypeOf(node), ContentStart, kids, 0, from)
      start == matchType(TypeOf(node), at, type)
      end   == matchFragment(TypeOf(node), start, kids, to, Len(kids))
  IN  start # "dead" /\ end # "dead" /\ validEnd(TypeOf(node), end)

\* Every node of the given type and size that the schema accepts, and every
\* content of the given size that takes a node of type ptype from state st to
\* a valid end.
RECURSIVE NodesOfSize(_, _), ContentsOfSize(_, _, _)
NodesOfSize(type, n) ==
  IF type = "text" THEN (IF n = 1 THEN {<<T>>} ELSE {})
  ELSE IF n < 2 THEN {}
  ELSE {<<Open(type, a)>> \o c \o <<Close(type)>> :
          a \in AttrsOf(type), c \in ContentsOfSize(type, ContentStart, n - 2)}

ContentsOfSize(ptype, st, n) ==
  (IF n = 0 /\ validEnd(ptype, st) THEN {<< >>} ELSE {})
  \cup UNION {
        {c \o r : c \in NodesOfSize(ct, m),
                  r \in ContentsOfSize(ptype, matchType(ptype, st, ct), n - m)} :
        ct \in {x \in NodeTypes : matchType(ptype, st, x) # "dead"}, m \in 1..n}

\* The documents a session may start from.
AllDocs == UNION {NodesOfSize("doc", n + 2) : n \in 0..MaxDocSize}

\* ------------------------------------------------------- resolved positions

\* Fragment.findIndex(pos): the index of the child at pos and the offset
\* before it; a position at a child's end belongs to the next index.
RECURSIVE findIndexFrom(_, _, _)
findIndexFrom(kids, i, pos) ==
  LET cur == kids[i].offset
      end == cur + nodeSize(kids[i].node)
  IN  IF end >= pos
        THEN (IF end = pos THEN [index |-> i, offset |-> end]
                           ELSE [index |-> i - 1, offset |-> cur])
        ELSE findIndexFrom(kids, i + 1, pos)

findIndex(node, pos) ==
  IF pos = 0 THEN [index |-> 0, offset |-> 0]
  ELSE IF pos = Len(nodeContent(node))
    THEN [index |-> childCount(node), offset |-> pos]
  ELSE findIndexFrom(Children(node), 1, pos)

\* ResolvedPos.resolve: one entry per depth, from the root down: the node at
\* that depth, the index into it and the position before the child there.
RECURSIVE ResolvePath(_, _, _)
ResolvePath(node, parentOffset, start) ==
  LET fi    == findIndex(node, parentOffset)
      rem   == parentOffset - fi.offset
      entry == [node |-> node, index |-> fi.index, offset |-> start + fi.offset]
  IN  IF rem = 0 THEN <<entry>>
      ELSE LET child == Children(node)[fi.index + 1].node
           IN  IF isText(child) THEN <<entry>>
               ELSE <<entry>> \o ResolvePath(child, rem - 1, start + fi.offset + 1)

resolve(doc, pos) == [pos |-> pos, path |-> ResolvePath(doc, pos, 0)]

PosDepth(rp) == Len(rp.path) - 1

PosNode(rp, d) == rp.path[d + 1].node

PosParent(rp) == PosNode(rp, PosDepth(rp))

PosIndex(rp, d) == rp.path[d + 1].index

PosTextOffset(rp) == rp.pos - rp.path[Len(rp.path)].offset

PosIndexAfter(rp, d) ==
  PosIndex(rp, d) + (IF d = PosDepth(rp) /\ PosTextOffset(rp) = 0 THEN 0 ELSE 1)

PosStart(rp, d) == IF d = 0 THEN 0 ELSE rp.path[d].offset + 1

\* PosBefore(d) and PosAfter(d) throw a RangeError at depth 0.
PosBefore(rp, d) == rp.path[d].offset

PosAfter(rp, d) == rp.path[d].offset + nodeSize(rp.path[d + 1].node)


\* ------------------------------------------------------------------- state

VARIABLES
  tr,      \* the transaction the caller holds: [ref, steps, doc, curSelection]
  call,    \* the last call made: its name, its arguments, the transaction before it
  result   \* what that call did: its outcome, its error, what it returned

vars == <<tr, call, result>>

Return(v) == [outcome |-> "returned", error |-> "none", value |-> v]

\* A returned boolean, and a returned {pos, start, depth, node} or undefined.
ReturnBoolean(b) == [outcome |-> "returned", error |-> "none", truth |-> b]

ReturnFound(f) == [outcome |-> "returned", error |-> "none", found |-> f]

Throw(e) == [outcome |-> "threw", error |-> e, value |-> << >>]

NoResult == [outcome |-> "none", error |-> "none", value |-> << >>]

\* ------------------------------------------------------------- predicates
\* A predicate argument is a JavaScript function or undefined.  The functions
\* callers pass are  x => x[field] === value  ("prop") and
\* x => types.includes(x.type)  ("types"); the code builds the closures
\* child => !!predicate(child)  ("wrap", findChildrenByAttr) and
\* child => child.type === nodeType  ("typeIs", findChildrenByType) and
\* node => equalNodeType(nodeType, node)  ("equalNodeType", findParentNodeOfType).

UndefinedPredicate == [k |-> "undefined"]

PropPredicate(field, value) == [k |-> "prop", field |-> field, value |-> value]

TypesPredicate(types) == [k |-> "types", types |-> types]

\* predicate(obj) for a caller's function and a JavaScript object.
CallPredicate(predicate, obj) ==
  CASE predicate.k = "prop"  -> Prop(obj, predicate.field) = predicate.value
    [] predicate.k = "types" -> Prop(obj, "type") \in predicate.types

\* Calling undefined is a TypeError.
CallThrows(predicate) == predicate.k = "undefined"

\* ------------------------------------------------------------- src/src/node.ts

\* JavaScript truthiness of a descend argument.
Truthy(v) == v = "true"

\* node.descendants(f) with the callback of flatten: every child is pushed,
\* and a child is entered unless the callback returned false for it (or it
\* has no content).
RECURSIVE descendants(_, _, _, _)
descendants(kids, i, base, descend) ==
  IF i > Len(kids) THEN << >>
  ELSE LET child == kids[i].node
           pos   == base + kids[i].offset
       IN  <<[node |-> child, pos |-> pos]>>
           \o (IF Truthy(descend) /\ Len(nodeContent(child)) > 0
                 THEN descendants(Children(child), 1, pos + 1, descend)
                 ELSE << >>)
           \o descendants(kids, i + 1, base, descend)

\* flatten with the descend argument ignored: every child is entered.
flattenAlwaysDescends(node, descend) ==
  IF node = UndefinedNode THEN Throw("Invalid node parameter")
  ELSE Return(descendants(Children(node), 1, 0, "true"))

flatten(node, descend) ==
  IF node = UndefinedNode THEN Throw("Invalid node parameter")
  ELSE Return(descendants(Children(node), 1, 0, descend))

\* helpers.equalNodeType: the node's type is the given type or a member of
\* the given types (nodeType is modelled as the set of them).
equalNodeType(nodeType, node) == TypeOf(node) \in nodeType

\* The closure findChildrenByAttr hands to findChildren, applied to a child.
WrapCall(predicate, child) == CallPredicate(predicate, NodeObject(child))

\* A closure of the library, or a caller's predicate, applied to a child node.
ApplyToNode(predicate, child) ==
  CASE predicate.k = "wrap"   -> WrapCall(predicate.inner, child)
    [] predicate.k = "typeIs" -> TypeOf(child) = predicate.type
    [] predicate.k = "equalNodeType" -> equalNodeType(predicate.nodeType, child)
    [] OTHER                  -> CallPredicate(predicate, NodeObject(child))

ApplyToNodeThrows(predicate) ==
  predicate.k = "wrap" /\ CallThrows(predicate.inner)

findChildren(node, predicate, descend) ==
  IF node = UndefinedNode THEN Throw("Invalid node parameter")
  ELSE IF predicate.k = "undefined" THEN Throw("Invalid predicate parameter")
  ELSE LET all == flatten(node, descend).value
       IN  IF Len(all) > 0 /\ ApplyToNodeThrows(predicate)
             THEN Throw("TypeError")
             ELSE Return(SelectSeq(all, LAMBDA c : ApplyToNode(predicate, c.node)))

findChildrenByAttr(node, predicate, descend) ==
  findChildren(node, [k |-> "wrap", inner |-> predicate], descend)

findChildrenByType(node, nodeType, descend) ==
  findChildren(node, [k |-> "typeIs", type |-> nodeType], descend)

contains(node, nodeType) ==
  LET found == findChildrenByType(node, nodeType, "null")
  IN  IF found.outcome = "threw" THEN found
      ELSE ReturnBoolean(IF Len(found.value) # 0 THEN "true" ELSE "false")

\* --------------------------------------------------------- inputs of calls

\* The token indexes of a node at which a node starts.
NodeStarts(s) ==
  {i \in 1..Len(s) :
     \/ s[i].k = "open"
     \/ s[i].k = "text" /\ (i = 1 \/ s[i - 1].k # "text")}

\* A document and every node in it.
NodesIn(doc) == {SubSeq(doc, i, ChildEnd(doc, i)) : i \in NodeStarts(doc)}

NodeArguments(doc) == NodesIn(doc) \cup {UndefinedNode}

DescendArguments == {"true", "false", "undefined"}

PredicateArguments ==
  {UndefinedPredicate, PropPredicate("colspan", "2"), PropPredicate("type", "cell"),
   PropPredicate("isText", "true")}

TypeArguments == {"paragraph", "cell", "text"}

NoCall == [op |-> "none"]

\* The selection a search session holds: the search calls never read it.
TextSelection(from, to) == [kind |-> "text", from |-> from, to |-> to]

NewTransaction(doc, selection) ==
  [ref |-> 0, steps |-> 0, doc |-> doc, curSelection |-> selection]

\* --------------------------------------------------- descendant-search calls

CallFlatten ==
  \E n \in NodeArguments(tr.doc), descend \in DescendArguments :
    /\ call = NoCall
    /\ call' = [op |-> "flatten", node |-> n, descend |-> descend]
    /\ result' = flatten(n, descend)
    /\ UNCHANGED tr

CallFindChildren ==
  \E n \in NodeArguments(tr.doc), predicate \in PredicateArguments,
     descend \in DescendArguments :
    /\ call = NoCall
    /\ call' = [op |-> "findChildren", node |-> n, predicate |-> predicate,
                descend |-> descend]
    /\ result' = findChildren(n, predicate, descend)
    /\ UNCHANGED tr

CallFindChildrenByAttr ==
  \E n \in NodeArguments(tr.doc), predicate \in PredicateArguments,
     descend \in DescendArguments :
    /\ call = NoCall
    /\ call' = [op |-> "findChildrenByAttr", node |-> n, predicate |-> predicate,
                descend |-> descend]
    /\ result' = findChildrenByAttr(n, predicate, descend)
    /\ UNCHANGED tr

CallFindChildrenByType ==
  \E n \in NodeArguments(tr.doc), nodeType \in TypeArguments,
     descend \in DescendArguments :
    /\ call = NoCall
    /\ call' = [op |-> "findChildrenByType", node |-> n, nodeType |-> nodeType,
                descend |-> descend]
    /\ result' = findChildrenByType(n, nodeType, descend)
    /\ UNCHANGED tr

CallContains ==
  \E n \in NodeArguments(tr.doc), nodeType \in TypeArguments :
    /\ call = NoCall
    /\ call' = [op |-> "contains", node |-> n, nodeType |-> nodeType]
    /\ result' = contains(n, nodeType)
    /\ UNCHANGED tr



\* -------------------------------------------------------- src/src/selection.ts

\* The absent result (undefined) of an ancestor search.
Absent == [absent |-> TRUE]

\* The loop of findParentNodeClosestToPos from depth i down.
RECURSIVE findParentLoop(_, _, _)
findParentLoop(rp, predicate, i) ==
  IF ~(i > 0) THEN Absent
  ELSE IF ApplyToNode(predicate, PosNode(rp, i))
    THEN [pos   |-> IF i > 0 THEN PosBefore(rp, i) ELSE 0,
          start |-> PosStart(rp, i),
          depth |-> i,
          node  |-> PosNode(rp, i)]
    ELSE findParentLoop(rp, predicate, i - 1)

\* The loop run down to depth 0 (i >= 0), so that the root can match.
RECURSIVE findParentLoopToRoot(_, _, _)
findParentLoopToRoot(rp, predicate, i) ==
  IF ~(i >= 0) THEN Absent
  ELSE IF ApplyToNode(predicate, PosNode(rp, i))
    THEN [pos   |-> IF i > 0 THEN PosBefore(rp, i) ELSE 0,
          start |-> PosStart(rp, i),
          depth |-> i,
          node  |-> PosNode(rp, i)]
    ELSE findParentLoopToRoot(rp, predicate, i - 1)

findParentNodeClosestToPosToRoot(rp, predicate) ==
  findParentLoopToRoot(rp, predicate, PosDepth(rp))

findParentNodeClosestToPos(rp, predicate) ==
  findParentLoop(rp, predicate, PosDepth(rp))

\* selection.$from: the selection's anchor, resolved in the document the
\* selection was made in.
SelFrom(doc, selection) == resolve(doc, selection.from)

findParentNode(predicate, doc, selection) ==
  findParentNodeClosestToPos(SelFrom(doc, selection), predicate)

findParentNodeOfType(nodeType, doc, selection) ==
  findParentNode([k |-> "equalNodeType", nodeType |-> nodeType], doc, selection)

\* ------------------------------------------------------ transaction primitives
\* The editing framework's Transaction, as the contract the utilities rely on
\* states it: delete, insert and replaceWith are total on the spans the
\* utilities hand them, change the transaction in place and return it.

TrDelete(t, from, to) ==
  [t EXCEPT !.doc = SubSeq(t.doc, 1, from + 1) \o SubSeq(t.doc, to + 2, Len(t.doc)),
            !.steps = @ + 1]

TrInsert(t, pos, n) ==
  [t EXCEPT !.doc = SubSeq(t.doc, 1, pos + 1) \o n \o SubSeq(t.doc, pos + 2, Len(t.doc)),
            !.steps = @ + 1]

TrReplaceWith(t, from, to, n) ==
  [t EXCEPT !.doc = SubSeq(t.doc, 1, from + 1) \o n \o SubSeq(t.doc, to + 2, Len(t.doc)),
            !.steps = @ + 1]

\* ------------------------------------------------------- src/unnamed/part_000

\* A new object with the fields of t: ref is the object's identity.  (The
\* timestamp setTime refreshes is read by nothing here and is left out.)
cloneTr(t) == [t EXCEPT !.ref = @ + 1]

replaceNodeAtPos(position, n, t) ==
  LET rp == resolve(t.doc, position)
      d  == PosDepth(rp)
  IN  IF d = 0 THEN Throw("RangeError")
      ELSE IF canReplaceWithThrows(t.doc, PosIndex(rp, d)) THEN Throw("RangeError")
      ELSE IF canReplaceWith(t.doc, PosIndex(rp, d), PosIndexAfter(rp, d), TypeOf(n))
        THEN Return(cloneTr(TrReplaceWith(t, PosBefore(rp, d), PosAfter(rp, d), n)))
        ELSE Return(t)

removeNodeAtPos(position, t) ==
  LET rp == resolve(t.doc, position)
      d  == PosDepth(rp)
  IN  IF d = 0 THEN Throw("RangeError")
      ELSE Return(cloneTr(TrDelete(t, PosBefore(rp, d), PosAfter(rp, d))))

removeParentNodeOfType(nodeType, t) ==
  LET found == findParentNodeOfType(nodeType, t.doc, t.curSelection)
  IN  IF found # Absent THEN removeNodeAtPos(found.pos, t) ELSE Return(t)

replaceParentNodeOfType(nodeType, n, t) ==
  LET found == findParentNodeOfType(nodeType, t.doc, t.curSelection)
  IN  IF found # Absent THEN replaceNodeAtPos(found.pos, n, t) ELSE Return(t)

\* tr.curSelection.node is set (truthy) on a node selection only.
SelectionHasNode(selection) == selection.kind = "node"

\* removeSelectedNode without the test of the selection's variant.
removeSelectedNodeUnchecked(t) ==
  Return(cloneTr(TrDelete(t, t.curSelection.from, t.curSelection.to)))

removeSelectedNode(t) ==
  IF SelectionHasNode(t.curSelection)
    THEN Return(cloneTr(TrDelete(t, t.curSelection.from, t.curSelection.to)))
    ELSE Return(t)

replaceSelectedNode(n, t) ==
  LET from == SelFrom(t.doc, t.curSelection)
      d    == PosDepth(from)
  IN  IF ~SelectionHasNode(t.curSelection) THEN Return(t)
      ELSE IF canReplaceWithThrows(PosParent(from), PosIndex(from, d)) THEN Throw("Error")
      ELSE IF canReplaceWith(PosParent(from), PosIndex(from, d), PosIndexAfter(from, d),
                             TypeOf(n))
        THEN Return(cloneTr(TrReplaceWith(t, t.curSelection.from, t.curSelection.to, n)))
        ELSE Return(t)

\* The loop of safeInsert from depth i down.
RECURSIVE safeInsertLoop(_, _, _, _)
safeInsertLoop(n, t, from, i) ==
  IF ~(i > 0) THEN Return(t)
  ELSE LET pos == PosAfter(from, i)
           rp  == resolve(t.doc, pos)
           ix  == PosIndex(rp, PosDepth(rp))
       IN  IF canReplaceWithThrows(PosParent(rp), ix) THEN Throw("Error")
           ELSE IF canReplaceWith(PosParent(rp), ix, ix, TypeOf(n))
             THEN Return(cloneTr(TrInsert(t, pos, n)))
             ELSE safeInsertLoop(n, t, from, i - 1)

\* safeInsert with the loop run from depth 1 up: the outermost accepting
\* ancestor wins.
RECURSIVE safeInsertLoopOutward(_, _, _, _)
safeInsertLoopOutward(n, t, from, i) ==
  IF i > PosDepth(from) THEN Return(t)
  ELSE LET pos == PosAfter(from, i)
           rp  == resolve(t.doc, pos)
           ix  == PosIndex(rp, PosDepth(rp))
       IN  IF canReplaceWithThrows(PosParent(rp), ix) THEN Throw("Error")
           ELSE IF canReplaceWith(PosParent(rp), ix, ix, TypeOf(n))
             THEN Return(cloneTr(TrInsert(t, pos, n)))
             ELSE safeInsertLoopOutward(n, t, from, i + 1)

safeInsertOutermostFirst(n, t) ==
  LET from == SelFrom(t.doc, t.curSelection)
      ix   == PosIndex(from, PosDepth(from))
  IN  IF canReplaceWithThrows(PosParent(from), ix) THEN Throw("Error")
      ELSE IF canReplaceWith(PosParent(from), ix, ix, TypeOf(n))
        THEN Return(cloneTr(TrInsert(t, from.pos, n)))
        ELSE safeInsertLoopOutward(n, t, from, 1)

safeInsert(n, t) ==
  LET from == SelFrom(t.doc, t.curSelection)
      ix   == PosIndex(from, PosDepth(from))
  IN  IF canReplaceWithThrows(PosParent(from), ix) THEN Throw("Error")
      ELSE IF canReplaceWith(PosParent(from), ix, ix, TypeOf(n))
        THEN Return(cloneTr(TrInsert(t, from.pos, n)))
        ELSE safeInsertLoop(n, t, from, PosDepth(from))


\* ------------------------------------------------------------ mutator calls

ParagraphNode == <<Open("paragraph", "none"), Close("paragraph")>>

BlockquoteNode == <<Open("blockquote", "none")>> \o ParagraphNode \o <<Close("blockquote")>>

TableNode ==
  <<Open("table", "none"), Open("row", "none"), Open("cell", "1"),
    Close("cell"), Close("row"), Close("table")>>

TextNode == <<T>>

\* The nodes a caller replaces with or inserts.
ReplacementNodes == {ParagraphNode, BlockquoteNode, TableNode, TextNode}

\* The nodeType arguments of the ...ParentNodeOfType calls (a type or types).
NodeTypeArguments ==
  {{"paragraph"}, {"blockquote"}, {"cell"}, {"doc"}, {"table", "blockquote"}}

\* The predicates of the ancestor-search calls.
AncestorPredicates ==
  {TypesPredicate(S) : S \in SUBSET {"doc", "paragraph", "blockquote", "row"}}
  \cup {PropPredicate("type", "cell")}

Positions(doc) == 0..Len(nodeContent(doc))

NodeSelection(from, to) == [kind |-> "node", from |-> from, to |-> to]

\* The selections of a document: carets and short ranges anywhere, and a node
\* selection around every non-text node.
Selections(doc) ==
  UNION {{TextSelection(p, q) :
            q \in {x \in Positions(doc) : x >= p /\ x - p <= MaxRange}} :
         p \in Positions(doc)}
  \cup {NodeSelection(i - 2, MatchClose(doc, i, 0) - 1) :
          i \in {j \in 2..Len(doc) : doc[j].k = "open"}}

\* A mutator changes the transaction it is given in place (the primitive
\* edits do) and returns a clone of it, or returns it untouched.
InPlace(t, r) ==
  IF r.outcome = "returned" /\ r.value.ref # t.ref
    THEN [r.value EXCEPT !.ref = t.ref]
    ELSE t

\* A mutator is called on a transaction that holds no step yet: the
\* selection it reads was made in the transaction's current document.
CanMutate == call = NoCall /\ tr.steps = 0

CallFindParentNodeClosestToPos ==
  \E position \in Positions(tr.doc), predicate \in AncestorPredicates :
    /\ call = NoCall
    /\ call' = [op |-> "findParentNodeClosestToPos", position |-> position,
                predicate |-> predicate, tr |-> tr]
    /\ result' = ReturnFound(findParentNodeClosestToPos(resolve(tr.doc, position),
                                                       predicate))
    /\ UNCHANGED tr

CallReplaceNodeAtPos ==
  \E position \in Positions(tr.doc), n \in ReplacementNodes :
    /\ CanMutate
    /\ call' = [op |-> "replaceNodeAtPos", position |-> position, node |-> n, tr |-> tr]
    /\ result' = replaceNodeAtPos(position, n, tr)
    /\ tr' = InPlace(tr, result')

CallRemoveNodeAtPos ==
  \E position \in Positions(tr.doc) :
    /\ CanMutate
    /\ call' = [op |-> "removeNodeAtPos", position |-> position, tr |-> tr]
    /\ result' = removeNodeAtPos(position, tr)
    /\ tr' = InPlace(tr, result')

CallRemoveParentNodeOfType ==
  \E nodeType \in NodeTypeArguments :
    /\ CanMutate
    /\ call' = [op |-> "removeParentNodeOfType", nodeType |-> nodeType, tr |-> tr]
    /\ result' = removeParentNodeOfType(nodeType, tr)
    /\ tr' = InPlace(tr, result')

CallReplaceParentNodeOfType ==
  \E nodeType \in NodeTypeArguments, n \in ReplacementNodes :
    /\ CanMutate
    /\ call' = [op |-> "replaceParentNodeOfType", nodeType |-> nodeType, node |-> n,
                tr |-> tr]
    /\ result' = replaceParentNodeOfType(nodeType, n, tr)
    /\ tr' = InPlace(tr, result')

CallRemoveSelectedNode ==
  /\ CanMutate
  /\ call' = [op |-> "removeSelectedNode", tr |-> tr]
  /\ result' = removeSelectedNode(tr)
  /\ tr' = InPlace(tr, result')

CallReplaceSelectedNode ==
  \E n \in ReplacementNodes :
    /\ CanMutate
    /\ call' = [op |-> "replaceSelectedNode", node |-> n, tr |-> tr]
    /\ result' = replaceSelectedNode(n, tr)
    /\ tr' = InPlace(tr, result')

CallSafeInsert ==
  \E n \in ReplacementNodes :
    /\ CanMutate
    /\ call' = [op |-> "safeInsert", node |-> n, tr |-> tr]
    /\ result' = safeInsert(n, tr)
    /\ tr' = InPlace(tr, result')

MutatorOps ==
  {"replaceNodeAtPos", "removeNodeAtPos", "removeParentNodeOfType",
   "replaceParentNodeOfType", "removeSelectedNode", "replaceSelectedNode", "safeInsert"}

\* The caller takes the result of the call and goes on with the transaction a
\* mutator returned.
Continue ==
  /\ call # NoCall
  /\ call' = NoCall
  /\ result' = NoResult
  /\ tr' = IF call.op \in MutatorOps /\ result.outcome = "returned"
             THEN result.value ELSE tr

\* The caller commits a changed transaction and begins the next one on the
\* resulting document, with the caret at the document's start.  Only a
\* document the schema accepts is committed: the framework's edits fail on
\* any other.
DispatchAtStart ==
  /\ call = NoCall
  /\ tr.steps > 0
  /\ tr.doc \in AllDocs
  /\ tr' = NewTransaction(tr.doc, TextSelection(0, 0))
  /\ UNCHANGED <<call, result>>

\* The same, with any selection of the resulting document.
Dispatch ==
  /\ call = NoCall
  /\ tr.steps > 0
  /\ tr.doc \in AllDocs
  /\ tr' \in {NewTransaction(tr.doc, sel) : sel \in Selections(tr.doc)}
  /\ UNCHANGED <<call, result>>

\* ----------------------------------------------------------- specifications

\* Descendant and ancestor search over every node and position of every
\* document.
SearchInit ==
  /\ tr \in {NewTransaction(doc, TextSelection(0, 0)) : doc \in AllDocs}
  /\ call = NoCall
  /\ result = NoResult

SearchNext ==
  \/ CallFlatten
  \/ CallFindChildren
  \/ CallFindChildrenByAttr
  \/ CallFindChildrenByType
  \/ CallContains
  \/ CallFindParentNodeClosestToPos
  \/ Continue

SearchSpec == SearchInit /\ [][SearchNext]_vars

\* The mutators that take a position.
PosNext ==
  \/ CallReplaceNodeAtPos
  \/ CallRemoveNodeAtPos
  \/ Continue
  \/ DispatchAtStart

PosSpec == SearchInit /\ [][PosNext]_vars

\* The mutators that read the transaction's selection.
Init ==
  /\ tr \in UNION {{NewTransaction(doc, sel) : sel \in Selections(doc)} : doc \in AllDocs}
  /\ call = NoCall
  /\ result = NoResult

Next ==
  \/ CallRemoveParentNodeOfType
  \/ CallReplaceParentNodeOfType
  \/ CallRemoveSelectedNode
  \/ CallReplaceSelectedNode
  \/ CallSafeInsert
  \/ Continue
  \/ Dispatch

Spec == Init /\ [][Next]_vars


\* ------------------------------------------------- what the claims speak of
\* The tree read off the token sequence directly, without the resolved
\* positions and traversals of the code.

Max(S) == CHOOSE x \in S : \A y \in S : y <= x

\* The nodes below n in document order, each with the position before it;
\* level is the nesting of token i below n, and only nodes nested at most
\* maxLevel deep are listed.
RECURSIVE DescendantsFrom(_, _, _, _)
DescendantsFrom(n, i, level, maxLevel) ==
  IF i >= Len(n) THEN << >>
  ELSE (IF i \in NodeStarts(n) /\ level <= maxLevel
          THEN <<[node |-> SubSeq(n, i, ChildEnd(n, i)), pos |-> i - 2]>>
          ELSE << >>)
       \o DescendantsFrom(n, i + 1,
                          level + (CASE n[i].k = "open" -> 1
                                     [] n[i].k = "close" -> -1
                                     [] OTHER -> 0),
                          maxLevel)

AllDescendants(n) == IF isText(n) THEN << >> ELSE DescendantsFrom(n, 2, 0, Len(n))

DirectChildren(n) == IF isText(n) THEN << >> ELSE DescendantsFrom(n, 2, 0, 0)

\* The opening tokens of the nodes (the root excluded) that enclose position p
\* of doc: the ancestors at depth 1, 2, ... in increasing order.
EnclosingStarts(doc, p) ==
  {i \in 2..(p + 1) : doc[i].k = "open" /\ MatchClose(doc, i, 0) > p + 1}

NodeFrom(doc, i) == SubSeq(doc, i, MatchClose(doc, i, 0))

DepthOf(doc, p, i) == Cardinality({j \in EnclosingStarts(doc, p) : j <= i})

\* new is old with the tokens between positions from and to taken out.
Deleted(old, new, from, to) ==
  /\ Len(new) = Len(old) - (to - from)
  /\ \A k \in 1..Len(new) :
       new[k] = IF k <= from + 1 THEN old[k] ELSE old[k + (to - from)]

\* new is old with the tokens between positions from and to replaced by n
\* (inserted at from when from = to).
Replaced(old, new, from, to, n) ==
  /\ Len(new) = Len(old) - (to - from) + Len(n)
  /\ \A k \in 1..Len(new) :
       new[k] = IF k <= from + 1 THEN old[k]
                ELSE IF k <= from + 1 + Len(n) THEN n[k - (from + 1)]
                ELSE old[k - Len(n) + (to - from)]

\* ------------------------------------------------------------------ claims

\* C1: findParentNodeClosestToPos never returns the document root: it returns
\* the ancestor at the greatest depth d in 1..depth whose node satisfies the
\* predicate, as {pos: before(d), start: start(d), depth: d, node}, and the
\* absent value when no ancestor at depth >= 1 satisfies it (also when only
\* the root does).
C1_InnermostAncestorNeverRoot ==
  call.op = "findParentNodeClosestToPos" =>
    LET doc      == call.tr.doc
        p        == call.position
        matching == {i \in EnclosingStarts(doc, p) :
                       ApplyToNode(call.predicate, NodeFrom(doc, i))}
    IN  /\ result.outcome = "returned"
        /\ IF matching = {} THEN result.found = Absent
           ELSE LET i == Max(matching)
                IN  /\ result.found = [pos   |-> i - 2,
                                       start |-> i - 1,
                                       depth |-> DepthOf(doc, p, i),
                                       node  |-> NodeFrom(doc, i)]
                    /\ result.found.depth >= 1

\* A search in which the root and two nested ancestors all satisfy the
\* predicate, and the inner one is returned.
C1_Witness ==
  /\ call.op = "findParentNodeClosestToPos"
  /\ call.predicate = TypesPredicate({"doc", "paragraph", "blockquote"})
  /\ result.found # Absent
  /\ result.found.depth = 2
  /\ Cardinality(EnclosingStarts(call.tr.doc, call.position)) = 2

\* C6: flatten(T, descend = false) returns exactly the direct children of T,
\* all of them and in order, and none of their descendants.
C6_ShallowFlattenIsDirectChildren ==
  (call.op = "flatten" /\ call.descend = "false" /\ call.node # UndefinedNode) =>
    result = Return(DirectChildren(call.node))

\* A shallow flatten of a node with several children and with grandchildren.
C6_Witness ==
  /\ call.op = "flatten"
  /\ call.descend = "false"
  /\ call.node # UndefinedNode
  /\ Len(DirectChildren(call.node)) >= 2
  /\ Len(AllDescendants(call.node)) > Len(DirectChildren(call.node))
  /\ result.outcome = "returned"
  /\ Len(result.value) = Len(DirectChildren(call.node))

\* C5: flatten(node) with descend omitted returns one entry for every
\* descendant of node at every depth, in document order, as flatten(node,
\* true) does.
C5_FlattenDescendsByDefault ==
  (call.op = "flatten" /\ call.descend = "undefined" /\ call.node # UndefinedNode) =>
    /\ result = Return(AllDescendants(call.node))
    /\ result = flatten(call.node, "true")

\* C4: contains(node, type) is true if and only if node has a descendant of
\* exactly that type at any depth below it.
C4_ContainsSearchesEveryDepth ==
  (call.op = "contains" /\ call.node # UndefinedNode) =>
    /\ result.outcome = "returned"
    /\ (result.truth = "true") <=>
         \E k \in 1..Len(AllDescendants(call.node)) :
           TypeOf(AllDescendants(call.node)[k].node) = call.nodeType

\* C8: findChildrenByAttr(node, predicate, descend) returns exactly the
\* entries of flatten(node, descend) whose node's attrs satisfy predicate.
C8_FindChildrenByAttrReadsAttrs ==
  (/\ call.op = "findChildrenByAttr"
   /\ call.node # UndefinedNode
   /\ call.predicate # UndefinedPredicate) =>
    result = Return(SelectSeq(flatten(call.node, call.descend).value,
                              LAMBDA c : CallPredicate(call.predicate, nodeAttrs(c.node))))

\* C9: a descendant-search call (flatten, findChildren, findChildrenByAttr)
\* whose node or predicate argument is missing fails with an error, for every
\* input tree; it never returns a result.
C9_MissingArgumentFails ==
  (/\ call.op \in {"flatten", "findChildren", "findChildrenByAttr"}
   /\ \/ call.node = UndefinedNode
      \/ call.op # "flatten" /\ call.predicate = UndefinedPredicate) =>
    result.outcome = "threw"

\* C2: replaceNodeAtPos(position, node)(tr), for a position inside some node,
\* returns a transaction distinct from tr in which the span before(depth) ..
\* after(depth) is replaced by node if and only if the container of the node
\* at the position's depth permits node's type in that child slot; otherwise
\* it returns tr itself.
C2_ReplaceIffContainerPermits ==
  (call.op = "replaceNodeAtPos"
   /\ EnclosingStarts(call.tr.doc, call.position) # {}) =>
    LET t         == call.tr
        rp        == resolve(t.doc, call.position)
        d         == PosDepth(rp)
        container == PosNode(rp, d - 1)
        slot      == PosIndex(rp, d - 1)
        permits   == canReplaceWith(container, slot, slot + 1, TypeOf(call.node))
    IN  /\ result.outcome = "returned"
        /\ IF permits
             THEN /\ result.value.ref # t.ref
                  /\ Replaced(t.doc, result.value.doc, PosBefore(rp, d), PosAfter(rp, d),
                              call.node)
             ELSE result.value = t

\* C10: when the nearest ancestor of the given types from the selection is at
\* depth d >= 1, removeParentNodeOfType(types)(tr) returns a new transaction
\* in which exactly that ancestor's span before(d) .. after(d) is deleted;
\* when there is none it returns tr itself.
C10_RemoveParentDeletesTheAncestor ==
  call.op = "removeParentNodeOfType" =>
    LET t        == call.tr
        p        == t.curSelection.from
        matching == {i \in EnclosingStarts(t.doc, p) :
                       TypeOf(NodeFrom(t.doc, i)) \in call.nodeType}
    IN  /\ result.outcome = "returned"
        /\ IF matching = {} THEN result.value = t
           ELSE LET i == Max(matching)
                IN  /\ result.value.ref # t.ref
                    /\ Deleted(t.doc, result.value.doc, i - 2, MatchClose(t.doc, i, 0) - 1)

\* C7: removeSelectedNode(tr) on a node selection returns a new transaction
\* with exactly the span selection.$from.pos .. selection.$to.pos deleted; on
\* a range (caret) selection it returns the same transaction, its document
\* and selection unchanged.
C7_RemoveSelectedNodeOnlyOnNodeSelection ==
  call.op = "removeSelectedNode" =>
    LET t == call.tr
    IN  /\ result.outcome = "returned"
        /\ IF t.curSelection.kind = "node"
             THEN /\ result.value.ref # t.ref
                  /\ Deleted(t.doc, result.value.doc, t.curSelection.from, t.curSelection.to)
             ELSE /\ result.value = t
                  /\ tr = t

\* A node selection whose node removeSelectedNode has deleted.
C7_Witness ==
  /\ call.op = "removeSelectedNode"
  /\ call.tr.curSelection.kind = "node"
  /\ result.outcome = "returned"
  /\ result.value.ref # call.tr.ref
  /\ Len(result.value.doc) = Len(call.tr.doc) - (call.tr.curSelection.to - call.tr.curSelection.from)
  /\ Len(result.value.doc) > 2

\* Whether the container at position pos of doc permits inserting type there.
PermitsAt(doc, pos, type) ==
  LET rp == resolve(doc, pos)
      ix == PosIndex(rp, PosDepth(rp))
  IN  canReplaceWith(PosParent(rp), ix, ix, type)

\* The depths 1..depth of the caret whose after-offset permits the type.
AcceptingDepths(doc, from, type) ==
  {i \in 1..PosDepth(from) : PermitsAt(doc, PosAfter(from, i), type)}

\* C3: safeInsert(node)(tr) inserts at the caret when the caret's container
\* permits node's type at the caret's index; otherwise immediately after the
\* innermost ancestor (depth down to 1) whose after-offset's container permits
\* it; and otherwise returns tr itself with nothing inserted.
C3_SafeInsertFallback ==
  call.op = "safeInsert" =>
    LET t         == call.tr
        from      == resolve(t.doc, t.curSelection.from)
        type      == TypeOf(call.node)
        accepting == AcceptingDepths(t.doc, from, type)
    IN  /\ result.outcome = "returned"
        /\ IF PermitsAt(t.doc, from.pos, type)
             THEN /\ result.value.ref # t.ref
                  /\ Replaced(t.doc, result.value.doc, from.pos, from.pos, call.node)
           ELSE IF accepting # {}
             THEN LET pos == PosAfter(from, Max(accepting))
                  IN  /\ result.value.ref # t.ref
                      /\ Replaced(t.doc, result.value.doc, pos, pos, call.node)
           ELSE /\ result.value = t
                /\ tr = t

\* Only the grandparent of the caret's container accepts the type: neither
\* the caret's container nor its parent does, and the node is inserted after
\* the ancestor that is the grandparent's direct child.
C3_Witness ==
  /\ call.op = "safeInsert"
  /\ LET t    == call.tr
         from == resolve(t.doc, t.curSelection.from)
         type == TypeOf(call.node)
         d    == PosDepth(from)
     IN  /\ d >= 2
         /\ ~PermitsAt(t.doc, from.pos, type)
         /\ AcceptingDepths(t.doc, from, type) = {d - 1}
         /\ result.outcome = "returned"
         /\ result.value.ref # t.ref
         /\ Replaced(t.doc, result.value.doc, PosAfter(from, d - 1), PosAfter(from, d - 1),
                     call.node)


====
